---- MODULE Spec2Model ----
(***************************************************************************)
(* A model of two parts of build_soong:                                    *)
(*   java/hiddenapi.go   the registry of hidden API outputs, appended to   *)
(*                       by concurrent module build actions and drained    *)
(*                       by hiddenAPIMakeVars;                             *)
(*   ui/build/kati.go    runKati and katiRewriteOutput, which run ckati    *)
(*                       and re-render its output, and genKatiSuffix.      *)
(* Strings are sequences of byte values, so that sorting, joining,         *)
(* truncation and matching are computed on their characters.               *)
(***************************************************************************)
EXTENDS Integers, Sequences, FiniteSets, TLC

(***************************************************************************)
(* Bounds of the model.                                                    *)
(***************************************************************************)
\* concurrent module build actions (goroutines of the build-graph engine)
NumWorkers == 2
\* hiddenAPIGenerateCSV / hiddenAPIEncodeDex calls made in all
MaxCalls == 2
\* lines written by one ckati process
MaxLines == 3
\* builds that derive a kati suffix, one after the other in one out directory
MaxBuilds == 2

(***************************************************************************)
(* Bytes.                                                                  *)
(***************************************************************************)
SP == 32
LF == 10
CR == 13
ESC == 27

Workers == 1..NumWorkers

RECURSIVE SumTo(_, _)
SumTo(f, n) == IF n = 0 THEN 0 ELSE f[n] + SumTo(f, n - 1)

\* the android.Config of the build; every context carries it
Configs == {"cfg"}

\* module names: "a", "ab" and "b"
ModuleNames == {<<97>>, <<97, 98>>, <<98>>}

ExportNames ==
  <<"SOONG_HIDDENAPI_FLAGS", "SOONG_HIDDENAPI_GREYLIST_METADATA",
    "SOONG_HIDDENAPI_DEX_INPUTS">>

VARIABLES
  onceValues,  \* config.Once: per config, <<>> or the stored threePathsPtrs
  heap,        \* the android.Paths values allocated by new(android.Paths)
  lockHolder,  \* hiddenAPIOutputsLock: 0 when free, else the worker holding it
  wpc,         \* per worker: position in its current call
  wcfg,        \* per worker: ctx.Config()
  wcalls,      \* per worker: calls started so far
  wargs,       \* per worker: the android.Path arguments of the current call
  wptr,        \* per worker: the pointers returned by hiddenAPIGetOutputs
  wtmp,        \* per worker: the slice value read by append
  dpc,         \* hiddenAPIMakeVars: position
  dcfg,        \* hiddenAPIMakeVars: ctx.Config()
  dptr,        \* hiddenAPIMakeVars: the pointers returned by hiddenAPIGetOutputs
  makeVars,    \* ctx.Strict: for each index of ExportNames the value, <<-1>> before
  done,        \* the android.Path values whose append has completed, per list
  dAfterAll,   \* whether hiddenAPIMakeVars started after every worker finished
  early        \* the workers whose hiddenAPIGetOutputs call came before any
               \* append had completed

hvars == <<onceValues, heap, lockHolder, wpc, wcfg, wcalls, wargs, wptr, wtmp,
           dpc, dcfg, dptr, makeVars, done, dAfterAll, early>>

VARIABLES
  kpc,            \* runKati: position
  cmd,            \* the ckati process: "none", "running" or "exited"
  waitResult,     \* what cmd.Wait returned: "" before it, "nil", "exit1",
                  \* "signal" (both an *exec.ExitError) or "other"
  written,        \* every item the process has written to its output
  pipe,           \* the items written and not yet read
  smartTerminal,  \* katiRewriteOutput: ctx.IsTerminal()
  haveBlankLine,  \* katiRewriteOutput: no progress line is held
  consumed,       \* the lines returned by scanner.Text(), each with the
                  \* result of termWidth for it (NoWidth when not asked)
  writes,         \* the writes made to ctx.Stdout() and ctx.Stderr(), in order
  fatalMsg,       \* the message given to ctx.Fatalln, "" when none
  fatalArg,       \* the value reported after the message, "" when none
  fatalAt,        \* the step that called ctx.Fatalln, "" when none
  startCalls,     \* calls of cmd.Start
  relayCalls,     \* calls of katiRewriteOutput
  waitCalls,      \* calls of cmd.Wait
  run,            \* 1 for the first run, 2 for the run on the recording
  recording       \* the first run's input and output, <<>> during it

kvars == <<kpc, cmd, waitResult, written, pipe, smartTerminal, haveBlankLine,
           consumed, writes, fatalMsg, fatalArg, fatalAt, startCalls, relayCalls,
           waitCalls, run, recording>>

(***************************************************************************)
(* The state of genKatiSuffix.                                             *)
(***************************************************************************)
VARIABLES
  spc,            \* genKatiSuffix: "gen" before it, "write" before
                  \* ioutil.WriteFile, "done" after it
  targetProduct,  \* config.TargetProduct()
  katiArgs,       \* config.KatiArgs()
  oneShot,        \* config.Environment().Get("ONE_SHOT_MAKEFILE"): <<ok, value>>
  cfgKatiSuffix,  \* the suffix stored by config.SetKatiSuffix, <<>> before
  files,          \* the files of the out directory: records path, content
  sufWrites,      \* successful writes of a suffix file in this build
  sufErr,         \* whether "Error writing suffix file:" was printed
  prevBuild,      \* key and suffix of the build before, <<>> in the first
  builds          \* builds started

svars == <<spc, targetProduct, katiArgs, oneShot, cfgKatiSuffix, files, sufWrites,
           sufErr, prevBuild, builds>>

vars == <<hvars, kvars, svars>>

(***************************************************************************)
(* Strings.                                                                *)
(***************************************************************************)
RECURSIVE StrLess(_, _)
\* a < b on Go strings: bytewise lexicographic
StrLess(a, b) ==
  IF b = <<>> THEN FALSE
  ELSE IF a = <<>> THEN TRUE
  ELSE IF Head(a) # Head(b) THEN Head(a) < Head(b)
  ELSE StrLess(Tail(a), Tail(b))

RECURSIVE InsertSorted(_, _)
InsertSorted(x, s) ==
  IF s = <<>> THEN <<x>>
  ELSE IF StrLess(x, Head(s)) THEN <<x>> \o s
  ELSE <<Head(s)>> \o InsertSorted(x, Tail(s))

RECURSIVE SortStrings(_)
\* sort.Strings: the strings in increasing order
SortStrings(s) ==
  IF s = <<>> THEN <<>> ELSE InsertSorted(Head(s), SortStrings(Tail(s)))

RECURSIVE Join(_, _)
\* strings.Join(s, sep)
Join(s, sep) ==
  IF s = <<>> THEN <<>>
  ELSE IF Len(s) = 1 THEN s[1]
  ELSE s[1] \o sep \o Join(Tail(s), sep)

\* android.PathForModuleOut(ctx, "hiddenapi", file): a path object of the
\* module; file is shortened to one letter ("/f", "/m", "/d")
PathForModuleOut(m, file, w, n) ==
  [str |-> m \o <<47, file>>, by |-> <<w, n>>]

\* android.Paths.Strings: a fresh []string of the paths' strings
Strings(paths) == [i \in 1..Len(paths) |-> paths[i].str]

(***************************************************************************)
(* hiddenAPIGetOutputs.                                                    *)
(***************************************************************************)
\* config.Once(key, f): the stored value, f() being run and stored by the
\* first caller only.  Gives <<value, onceValues', heap'>>.
Once(config) ==
  IF onceValues[config] # <<>>
    THEN <<onceValues[config], onceValues, heap>>
    ELSE LET n == Len(heap)
             s == <<n + 1, n + 2, n + 3>>
         IN <<s, [onceValues EXCEPT ![config] = s], heap \o <<<<>>, <<>>, <<>>>>>>

\* a registry that makes its lists anew on every call
GetOutputsFresh(config) ==
  LET n == Len(heap)
      s == <<n + 1, n + 2, n + 3>>
  IN <<s,
       IF onceValues[config] = <<>> THEN [onceValues EXCEPT ![config] = s]
                                   ELSE onceValues,
       heap \o <<<<>>, <<>>, <<>>>>>>

hiddenAPIGetOutputs(config) == Once(config)

(***************************************************************************)
(* Module build actions.                                                   *)
(***************************************************************************)
\* the calls made so far by all workers
CallsStarted == SumTo(wcalls, NumWorkers)

NothingAppended(config) == \A k \in 1..3 : done[config][k] = {}

WUnchanged ==
  UNCHANGED <<wcfg, dpc, dcfg, dptr, makeVars, dAfterAll, kvars, svars>>

\* hiddenAPIGenerateCSV up to the first statement of hiddenAPISaveCSVOutputs
hiddenAPIGenerateCSV(w, m) ==
  /\ wpc[w] = "idle"
  /\ CallsStarted < MaxCalls
  /\ LET n == wcalls[w] + 1
         flagsCSV == PathForModuleOut(m, 102, w, n)
         metadataCSV == PathForModuleOut(m, 109, w, n)
         g == hiddenAPIGetOutputs(wcfg[w])
     IN /\ wcalls' = [wcalls EXCEPT ![w] = n]
        /\ wargs' = [wargs EXCEPT ![w] = <<flagsCSV, metadataCSV>>]
        /\ wptr' = [wptr EXCEPT ![w] = g[1]]
        /\ onceValues' = g[2]
        /\ heap' = g[3]
        /\ wpc' = [wpc EXCEPT ![w] = "csv_lock"]
  /\ early' = IF NothingAppended(wcfg[w]) THEN early \cup {w} ELSE early
  /\ UNCHANGED <<lockHolder, wtmp, done>>
  /\ WUnchanged

\* hiddenAPIEncodeDex up to the first statement of hiddenAPISaveDexInputs
hiddenAPIEncodeDex(w, m) ==
  /\ wpc[w] = "idle"
  /\ CallsStarted < MaxCalls
  /\ LET n == wcalls[w] + 1
         dexInput == PathForModuleOut(m, 100, w, n)
         g == hiddenAPIGetOutputs(wcfg[w])
     IN /\ wcalls' = [wcalls EXCEPT ![w] = n]
        /\ wargs' = [wargs EXCEPT ![w] = <<dexInput>>]
        /\ wptr' = [wptr EXCEPT ![w] = g[1]]
        /\ onceValues' = g[2]
        /\ heap' = g[3]
        /\ wpc' = [wpc EXCEPT ![w] = "dex_lock"]
  /\ early' = IF NothingAppended(wcfg[w]) THEN early \cup {w} ELSE early
  /\ UNCHANGED <<lockHolder, wtmp, done>>
  /\ WUnchanged

\* a lock that is taken without waiting for its holder
LockNoWait(w) == lockHolder' = w

\* hiddenAPIOutputsLock.Lock()
Lock(w) ==
  /\ lockHolder = 0
  /\ lockHolder' = w

\* an unlock that leaves the lock held
UnlockNothing(w) == lockHolder' = lockHolder

\* hiddenAPIOutputsLock.Unlock()
Unlock(w) == lockHolder' = 0

SaveLock(w) ==
  /\ wpc[w] \in {"csv_lock", "dex_lock"}
  /\ Lock(w)
  /\ wpc' = [wpc EXCEPT ![w] = IF wpc[w] = "csv_lock" THEN "csv_rd1" ELSE "dex_rd"]
  /\ UNCHANGED <<onceValues, heap, wcalls, wargs, wptr, wtmp, done, early>>
  /\ WUnchanged

\* append(*list, path), first half: the slice value *list is read
AppendRead(w, from, to, k) ==
  /\ wpc[w] = from
  /\ wtmp' = [wtmp EXCEPT ![w] = heap[wptr[w][k]]]
  /\ wpc' = [wpc EXCEPT ![w] = to]
  /\ UNCHANGED <<onceValues, heap, lockHolder, wcalls, wargs, wptr, done, early>>
  /\ WUnchanged

\* the value stored by *list = append(*list, path)
Appended(old, path) == Append(old, path)

\* *list = append(*list, path), second half: the extended slice is stored
AppendWrite(w, from, to, k, a) ==
  /\ wpc[w] = from
  /\ heap' = [heap EXCEPT ![wptr[w][k]] = Appended(wtmp[w], wargs[w][a])]
  /\ done' = [done EXCEPT ![wcfg[w]][k] = @ \cup {wargs[w][a]}]
  /\ wtmp' = [wtmp EXCEPT ![w] = <<>>]
  /\ wpc' = [wpc EXCEPT ![w] = to]
  /\ UNCHANGED <<onceValues, lockHolder, wcalls, wargs, wptr, early>>
  /\ WUnchanged

\* the deferred Unlock and the return
SaveReturn(w) ==
  /\ wpc[w] = "unlock"
  /\ Unlock(w)
  /\ wpc' = [wpc EXCEPT ![w] = "idle"]
  /\ wargs' = [wargs EXCEPT ![w] = <<>>]
  /\ wptr' = [wptr EXCEPT ![w] = <<>>]
  /\ UNCHANGED <<onceValues, heap, wcalls, wtmp, done, early>>
  /\ WUnchanged

\* a save that gives up the lock between its two appends
SaveCSVReleaseBetween(w) ==
  \/ AppendRead(w, "csv_rd1", "csv_wr1", 1)
  \/ /\ wpc[w] = "csv_wr1"
     /\ heap' = [heap EXCEPT ![wptr[w][1]] = Appended(wtmp[w], wargs[w][1])]
     /\ done' = [done EXCEPT ![wcfg[w]][1] = @ \cup {wargs[w][1]}]
     /\ wtmp' = [wtmp EXCEPT ![w] = <<>>]
     /\ wpc' = [wpc EXCEPT ![w] = "csv_rd2"]
     /\ lockHolder' = 0
     /\ UNCHANGED <<onceValues, wcalls, wargs, wptr, early>>
     /\ WUnchanged
  \/ AppendRead(w, "csv_rd2", "csv_wr2", 2)
  \/ AppendWrite(w, "csv_wr2", "unlock", 2, 2)

hiddenAPISaveCSVOutputs(w) ==
  \/ AppendRead(w, "csv_rd1", "csv_wr1", 1)
  \/ AppendWrite(w, "csv_wr1", "csv_rd2", 1, 1)
  \/ AppendRead(w, "csv_rd2", "csv_wr2", 2)
  \/ AppendWrite(w, "csv_wr2", "unlock", 2, 2)

hiddenAPISaveDexInputs(w) ==
  \/ AppendRead(w, "dex_rd", "dex_wr", 3)
  \/ AppendWrite(w, "dex_wr", "unlock", 3, 1)

(***************************************************************************)
(* hiddenAPIMakeVars.                                                      *)
(***************************************************************************)
AllWorkersFinished ==
  /\ \A w \in Workers : wpc[w] = "idle"
  /\ CallsStarted = MaxCalls

DUnchanged ==
  UNCHANGED <<lockHolder, wpc, wcfg, wcalls, wargs, wptr, wtmp, dcfg, done, early,
              kvars, svars>>

hiddenAPIMakeVarsGet ==
  /\ dpc = 0
  /\ LET g == hiddenAPIGetOutputs(dcfg)
     IN /\ dptr' = g[1]
        /\ onceValues' = g[2]
        /\ heap' = g[3]
  /\ dpc' = 1
  /\ dAfterAll' = AllWorkersFinished
  /\ UNCHANGED makeVars
  /\ DUnchanged

\* an export that joins the strings in their order of arrival
ExportValueUnsorted(paths) == Join(Strings(paths), <<SP>>)

\* the value given to ctx.Strict by the export closure
ExportValue(paths) == Join(SortStrings(Strings(paths)), <<SP>>)

\* android.Paths in increasing order of their strings
RECURSIVE InsertPath(_, _)
InsertPath(x, s) ==
  IF s = <<>> THEN <<x>>
  ELSE IF StrLess(x.str, Head(s).str) THEN <<x>> \o s
  ELSE <<Head(s)>> \o InsertPath(x, Tail(s))

RECURSIVE SortPaths(_)
SortPaths(s) ==
  IF s = <<>> THEN <<>> ELSE InsertPath(Head(s), SortPaths(Tail(s)))

\* an export that sorts the registry's own list rather than a copy
exportInPlace(k) ==
  /\ dpc = k
  /\ heap' = [heap EXCEPT ![dptr[k]] = SortPaths(@)]
  /\ makeVars' = [makeVars EXCEPT ![k] = Join(Strings(heap'[dptr[k]]), <<SP>>)]
  /\ dpc' = k + 1
  /\ UNCHANGED <<onceValues, dptr, dAfterAll>>
  /\ DUnchanged

\* an export that leaves out a name whose list is empty
exportSkipEmpty(k) ==
  /\ dpc = k
  /\ makeVars' = IF heap[dptr[k]] = <<>> THEN makeVars
                 ELSE [makeVars EXCEPT ![k] = ExportValue(heap[dptr[k]])]
  /\ dpc' = k + 1
  /\ UNCHANGED <<onceValues, heap, dptr, dAfterAll>>
  /\ DUnchanged

\* the program counters at which a worker has read a list for an append and
\* has not yet stored the extended list, by index of the list
WritePc == <<"csv_wr1", "csv_wr2", "dex_wr">>

\* the workers in the middle of an append to the list at address a
Appending(a) ==
  {w \in Workers : \E i \in 1..3 : wpc[w] = WritePc[i] /\ wptr[w][i] = a}

\* what the export gets when its read of the slice meets the store of an
\* append: a slice that is neither the old nor the new one, on which
\* Strings() panics or returns arbitrary strings
Torn == <<-2>>

\* what export can pass to ctx.Strict for the list at address a.  The list
\* is read without hiddenAPIOutputsLock: a read that does not meet a store
\* gets the list as stored; one that meets the store of an append in
\* progress is a data race, and can also get a torn slice.
ExportOutcomes(a) ==
  {ExportValue(heap[a])} \cup (IF Appending(a) # {} THEN {Torn} ELSE {})

\* export(name, paths), for the k-th export name
export(k) ==
  /\ dpc = k
  /\ \E v \in ExportOutcomes(dptr[k]) : makeVars' = [makeVars EXCEPT ![k] = v]
  /\ dpc' = k + 1
  /\ UNCHANGED <<onceValues, heap, dptr, dAfterAll>>
  /\ DUnchanged

hiddenAPIMakeVars ==
  \/ hiddenAPIMakeVarsGet
  \/ \E k \in 1..3 : export(k)

(***************************************************************************)
(* The registry's specification.                                           *)
(***************************************************************************)
NoLists == [k \in 1..3 |-> {}]

HInit ==
  /\ onceValues = [c \in Configs |-> <<>>]
  /\ heap = <<>>
  /\ lockHolder = 0
  /\ wpc = [w \in Workers |-> "idle"]
  /\ wcfg \in [Workers -> Configs]
  /\ wcalls = [w \in Workers |-> 0]
  /\ wargs = [w \in Workers |-> <<>>]
  /\ wptr = [w \in Workers |-> <<>>]
  /\ wtmp = [w \in Workers |-> <<>>]
  /\ dpc = 0
  /\ dcfg \in Configs
  /\ dptr = <<>>
  /\ makeVars = [k \in 1..3 |-> <<-1>>]
  /\ done = [c \in Configs |-> NoLists]
  /\ dAfterAll = FALSE
  /\ early = {}

HNext ==
  \/ \E w \in Workers, m \in ModuleNames : hiddenAPIGenerateCSV(w, m)
  \/ \E w \in Workers, m \in ModuleNames : hiddenAPIEncodeDex(w, m)
  \/ \E w \in Workers : SaveLock(w)
  \/ \E w \in Workers : hiddenAPISaveCSVOutputs(w)
  \/ \E w \in Workers : hiddenAPISaveDexInputs(w)
  \/ \E w \in Workers : SaveReturn(w)
  \/ hiddenAPIMakeVars

(***************************************************************************)
(* katiRewriteOutput.                                                      *)
(***************************************************************************)
\* "including "
Including == <<105, 110, 99, 108, 117, 100, 105, 110, 103, 32>>

\* the lines ckati writes in the model
LineProgress == Including \o <<97, 32, 46, 46, 46>>            \* including a ...
LineCounted == <<91, 49, 47, 50, 93, 32>> \o LineProgress      \* [1/2] including a ...
LineNoDots == Including \o <<97, 32, 120, 121, 122>>           \* including a xyz
LineNoFile == Including \o <<32, 46, 46, 46>>                  \* including  ...
LineColour == <<ESC, 91, 49, 109, 119, ESC, 91, 48, 109>>      \* ESC[1mwESC[0m

Lines == {LineProgress, LineCounted, LineNoDots, LineNoFile, LineColour}

\* a line longer than the scanner's buffer (bufio.MaxScanTokenSize)
OverLong == <<-1>>

Items == Lines \cup {OverLong}

\* termWidth(ctx.Stdout()): <<max, ok>>
TermWidths == {<<0, FALSE>>, <<5, TRUE>>, <<80, TRUE>>}

\* no call of termWidth
NoWidth == <<-1, FALSE>>

IsDigit(b) == b >= 48 /\ b <= 57

IsLetter(b) == (b >= 97 /\ b <= 122) \/ (b >= 65 /\ b <= 90)

\* including [^ ]+ ...$  (each of the last three dots matches any character)
MatchIncluding(s) ==
  LET n == Len(s) - Len(Including)
      rest == SubSeq(s, Len(Including) + 1, Len(s))
  IN /\ n >= 5
     /\ SubSeq(s, 1, Len(Including)) = Including
     /\ rest[n - 3] = SP
     /\ \A i \in 1..(n - 4) : rest[i] # SP

\* \[\d+/\d+]  followed by a space, as the first p bytes of s
MatchCounter(s, p) ==
  /\ p >= 6
  /\ p <= Len(s)
  /\ s[1] = 91
  /\ s[p - 1] = 93
  /\ s[p] = SP
  /\ \E q \in 3..(p - 3) :
       /\ s[q] = 47
       /\ \A i \in 2..(q - 1) : IsDigit(s[i])
       /\ \A i \in (q + 1)..(p - 2) : IsDigit(s[i])

\* katiIncludeRe.MatchString(line)
katiIncludeRe(line) ==
  \/ MatchIncluding(line)
  \/ \E p \in 1..Len(line) :
       MatchCounter(line, p) /\ MatchIncluding(SubSeq(line, p + 1, Len(line)))

\* the index of the first letter of s, 0 when it has none
RECURSIVE IndexLetter(_, _)
IndexLetter(s, i) ==
  IF i > Len(s) THEN 0 ELSE IF IsLetter(s[i]) THEN i ELSE IndexLetter(s, i + 1)

RECURSIVE stripAnsiEscapes(_)
\* stripAnsiEscapes: the input without its ESC [ ... letter sequences
stripAnsiEscapes(input) ==
  IF input = <<>> THEN <<>>
  ELSE IF input[1] = ESC /\ Len(input) >= 2 /\ input[2] = 91
    THEN LET i == IndexLetter(input, 1)
         IN IF i = 0 THEN <<>>
            ELSE stripAnsiEscapes(SubSeq(input, i + 1, Len(input)))
  ELSE <<input[1]>> \o stripAnsiEscapes(Tail(input))

\* a line that is never cut
TruncatedNever(line, tw) == line

\* line[:max] when termWidth gave a width and the line is longer
Truncated(line, tw) ==
  IF tw[2] /\ Len(line) > tw[1] THEN SubSeq(line, 1, tw[1]) ELSE line

\* one write of text to a sink, made for input line number at
Write(sink, text, at) == [sink |-> sink, text |-> text, at |-> at]

\* a loop body that does not commit the held progress line
RewriteLineNoCommit(line, tw, smart, blank, at) ==
  IF smart /\ katiIncludeRe(line)
    THEN [out |-> <<Write("stdout", <<CR>> \o Truncated(line, tw) \o <<ESC, 91, 75>>, at)>>,
          blank |-> FALSE]
  ELSE IF ~smart
    THEN [out |-> <<Write("stderr", stripAnsiEscapes(line) \o <<LF>>, at)>>,
          blank |-> blank]
  ELSE [out |-> <<Write("stderr", line \o <<LF>>, at)>>, blank |-> blank]

\* a loop body that does not strip the escape sequences
RewriteLineNoStrip(line, tw, smart, blank, at) ==
  IF smart /\ katiIncludeRe(line)
    THEN [out |-> <<Write("stdout", <<CR>> \o Truncated(line, tw) \o <<ESC, 91, 75>>, at)>>,
          blank |-> FALSE]
  ELSE IF smart /\ ~blank
    THEN [out |-> <<Write("stdout", <<LF>>, at), Write("stderr", line \o <<LF>>, at)>>,
          blank |-> TRUE]
  ELSE [out |-> <<Write("stderr", line \o <<LF>>, at)>>, blank |-> blank]

\* the body of the scanner loop for one line: the writes it makes and the
\* value it leaves in haveBlankLine
RewriteLine(line, tw, smart, blank, at) ==
  IF smart /\ katiIncludeRe(line)
    THEN [out |-> <<Write("stdout", <<CR>> \o Truncated(line, tw) \o <<ESC, 91, 75>>, at)>>,
          blank |-> FALSE]
  ELSE IF smart /\ ~blank
    THEN [out |-> <<Write("stdout", <<LF>>, at), Write("stderr", line \o <<LF>>, at)>>,
          blank |-> TRUE]
  ELSE IF ~smart
    THEN [out |-> <<Write("stderr", stripAnsiEscapes(line) \o <<LF>>, at)>>,
          blank |-> blank]
  ELSE [out |-> <<Write("stderr", line \o <<LF>>, at)>>, blank |-> blank]

KUnchanged == UNCHANGED <<hvars, svars>>

\* ctx.Fatalln(msg): the message is logged and the step is aborted
Fatalln(msg, arg, at) ==
  /\ fatalMsg' = msg
  /\ fatalArg' = arg
  /\ fatalAt' = at
  /\ kpc' = "fatal"

\* an entry that keeps haveBlankLine from the run before
EnterKeepState ==
  /\ kpc = "relay"
  /\ relayCalls' = relayCalls + 1
  /\ \E t \in BOOLEAN :
       /\ run = 2 => t = recording.isTerminal
       /\ smartTerminal' = t
  /\ kpc' = "scan"
  /\ UNCHANGED <<cmd, waitResult, written, pipe, consumed, writes, fatalMsg,
                 fatalArg, fatalAt, startCalls, waitCalls, run, recording, haveBlankLine>>
  /\ KUnchanged

\* the first statements of katiRewriteOutput, up to the scanner loop
katiRewriteOutputEnter ==
  /\ kpc = "relay"
  /\ relayCalls' = relayCalls + 1
  /\ haveBlankLine' = TRUE
  /\ \E t \in BOOLEAN :
       /\ run = 2 => t = recording.isTerminal
       /\ smartTerminal' = t
  /\ kpc' = "scan"
  /\ UNCHANGED <<cmd, waitResult, written, pipe, consumed, writes, fatalMsg,
                 fatalArg, fatalAt, startCalls, waitCalls, run, recording>>
  /\ KUnchanged

\* the widths termWidth may report for the next line
WidthsFor(line) ==
  IF ~(smartTerminal /\ katiIncludeRe(line)) THEN {NoWidth}
  ELSE IF run = 2 /\ Len(consumed) < Len(recording.consumed)
    THEN {recording.consumed[Len(consumed) + 1].tw}
  ELSE TermWidths

\* one scanner.Scan() that returns a line, and the loop body for it
katiRewriteOutputLine ==
  /\ kpc = "scan"
  /\ pipe # <<>>
  /\ Head(pipe) # OverLong
  /\ \E tw \in WidthsFor(Head(pipe)) :
       LET line == Head(pipe)
           r == RewriteLine(line, tw, smartTerminal, haveBlankLine, Len(consumed) + 1)
       IN /\ consumed' = Append(consumed, [line |-> line, tw |-> tw])
          /\ writes' = writes \o r.out
          /\ haveBlankLine' = r.blank
  /\ pipe' = Tail(pipe)
  /\ UNCHANGED <<kpc, cmd, waitResult, written, smartTerminal, fatalMsg, fatalArg, fatalAt,
                 startCalls, relayCalls, waitCalls, run, recording>>
  /\ KUnchanged

\* an end of the loop that leaves the last progress line as it is
FlushNothing(blank, at) == <<>>

\* the writes made after the scanner loop
Flush(blank, at) == IF ~blank THEN <<Write("stdout", <<LF>>, at)>> ELSE <<>>

\* scanner.Scan() returns false: at the end of the output, or on a line
\* too long for the scanner; then the statements after the loop
katiRewriteOutputEnd ==
  /\ kpc = "scan"
  /\ \/ pipe = <<>> /\ cmd = "exited"
     \/ pipe # <<>> /\ Head(pipe) = OverLong
  /\ writes' = writes \o Flush(haveBlankLine, Len(consumed) + 1)
  /\ kpc' = "wait"
  /\ UNCHANGED <<cmd, waitResult, written, pipe, smartTerminal, haveBlankLine,
                 consumed, fatalMsg, fatalArg, fatalAt, startCalls, relayCalls, waitCalls,
                 run, recording>>
  /\ KUnchanged

katiRewriteOutput ==
  \/ katiRewriteOutputEnter
  \/ katiRewriteOutputLine
  \/ katiRewriteOutputEnd

(***************************************************************************)
(* The ckati process.                                                      *)
(***************************************************************************)
\* the items the process may write next
NextItems ==
  IF run = 2 THEN {recording.written[Len(written) + 1]} ELSE Items

\* whether the process has more to write
MayWrite ==
  IF run = 2 THEN Len(written) < Len(recording.written)
  ELSE Len(written) < MaxLines

ckatiWrite ==
  /\ cmd = "running"
  /\ MayWrite
  /\ \E item \in NextItems :
       /\ written' = Append(written, item)
       /\ pipe' = Append(pipe, item)
  /\ UNCHANGED <<kpc, cmd, waitResult, smartTerminal, haveBlankLine, consumed,
                 writes, fatalMsg, fatalArg, fatalAt, startCalls, relayCalls, waitCalls,
                 run, recording>>
  /\ KUnchanged

ckatiExit ==
  /\ cmd = "running"
  /\ run = 2 => Len(written) = Len(recording.written)
  /\ cmd' = "exited"
  /\ UNCHANGED <<kpc, waitResult, written, pipe, smartTerminal, haveBlankLine, consumed,
                 writes, fatalMsg, fatalArg, fatalAt, startCalls, relayCalls, waitCalls,
                 run, recording>>
  /\ KUnchanged

(***************************************************************************)
(* runKati.                                                                *)
(***************************************************************************)
\* cmd.StdoutPipe()
runKatiPipe ==
  /\ kpc = "pipe"
  /\ \E err \in BOOLEAN :
       /\ run = 2 => ~err
       /\ IF err THEN Fatalln("Error getting output pipe for ckati:", "err", "pipe")
          ELSE kpc' = "start" /\ UNCHANGED <<fatalMsg, fatalArg, fatalAt>>
  /\ UNCHANGED <<cmd, waitResult, written, pipe, smartTerminal, haveBlankLine,
                 consumed, writes, startCalls, relayCalls, waitCalls, run,
                 recording>>
  /\ KUnchanged

\* a start whose failure is reported without aborting
StartReportOnly ==
  /\ kpc = "start"
  /\ startCalls' = startCalls + 1
  /\ \E err \in BOOLEAN :
       /\ run = 2 => ~err
       /\ IF err
            THEN /\ fatalMsg' = "Failed to run ckati:"
                 /\ fatalArg' = "err"
                 /\ fatalAt' = "start"
                 /\ kpc' = "relay"
                 /\ cmd' = "exited"
            ELSE kpc' = "relay" /\ cmd' = "running" /\ UNCHANGED <<fatalMsg, fatalArg, fatalAt>>
  /\ UNCHANGED <<waitResult, written, pipe, smartTerminal, haveBlankLine,
                 consumed, writes, relayCalls, waitCalls, run, recording>>
  /\ KUnchanged

\* cmd.Start()
runKatiStart ==
  /\ kpc = "start"
  /\ startCalls' = startCalls + 1
  /\ \E err \in BOOLEAN :
       /\ run = 2 => ~err
       /\ IF err
            THEN Fatalln("Failed to run ckati:", "err", "start") /\ UNCHANGED cmd
            ELSE kpc' = "relay" /\ cmd' = "running" /\ UNCHANGED <<fatalMsg, fatalArg, fatalAt>>
  /\ UNCHANGED <<waitResult, written, pipe, smartTerminal, haveBlankLine,
                 consumed, writes, relayCalls, waitCalls, run, recording>>
  /\ KUnchanged

\* a wait whose error is logged without aborting the step
WaitReportOnly ==
  /\ kpc = "wait"
  /\ cmd = "exited"
  /\ waitCalls' = waitCalls + 1
  /\ \E err \in {"nil", "exit1", "signal", "other"} :
       /\ waitResult' = err
       /\ fatalMsg' = IF err = "nil" THEN fatalMsg ELSE "Failed to run ckati:"
       /\ fatalArg' = IF err = "nil" THEN fatalArg ELSE "err"
       /\ fatalAt' = IF err = "nil" THEN fatalAt ELSE "wait"
  /\ kpc' = "done"
  /\ UNCHANGED <<cmd, written, pipe, smartTerminal, haveBlankLine,
                 consumed, writes, startCalls, relayCalls, run, recording>>
  /\ KUnchanged

\* a wait that reports every error as the exit status of ckati
WaitAllExitStatus ==
  /\ kpc = "wait"
  /\ cmd = "exited"
  /\ waitCalls' = waitCalls + 1
  /\ \E err \in {"nil", "exit1", "signal", "other"} :
       /\ waitResult' = err
       /\ IF err = "nil" THEN kpc' = "done" /\ UNCHANGED <<fatalMsg, fatalArg, fatalAt>>
          ELSE Fatalln("ckati failed with:", "err", "wait")
  /\ UNCHANGED <<cmd, written, pipe, smartTerminal, haveBlankLine,
                 consumed, writes, startCalls, relayCalls, run, recording>>
  /\ KUnchanged

\* e.ProcessState.String() of the *exec.ExitError e returned by cmd.Wait()
ProcessStateString(err) ==
  IF err = "exit1" THEN "exit status 1" ELSE "signal: killed"

\* cmd.Wait() and the report of its error
runKatiWait ==
  /\ kpc = "wait"
  /\ cmd = "exited"
  /\ waitCalls' = waitCalls + 1
  /\ \E err \in {"nil", "exit1", "signal", "other"} :
       /\ waitResult' = err
       /\ IF err = "nil" THEN kpc' = "done" /\ UNCHANGED <<fatalMsg, fatalArg, fatalAt>>
          ELSE IF err \in {"exit1", "signal"}
            THEN Fatalln("ckati failed with:", ProcessStateString(err), "wait")
          ELSE Fatalln("Failed to run ckati:", "err", "wait")
  /\ UNCHANGED <<cmd, written, pipe, smartTerminal, haveBlankLine,
                 consumed, writes, startCalls, relayCalls, run, recording>>
  /\ KUnchanged

runKati ==
  \/ runKatiPipe
  \/ runKatiStart
  \/ katiRewriteOutput
  \/ runKatiWait

\* the output of a finished run is kept and ckati is run once more, on the
\* same terminal and with the same output
RunAgain ==
  /\ run = 1
  /\ kpc \in {"done", "fatal"}
  /\ relayCalls = 1
  /\ recording' = [written |-> written, consumed |-> consumed, writes |-> writes,
                   isTerminal |-> smartTerminal]
  /\ run' = 2
  /\ kpc' = "pipe"
  /\ cmd' = "none"
  /\ waitResult' = ""
  /\ written' = <<>>
  /\ pipe' = <<>>
  /\ consumed' = <<>>
  /\ writes' = <<>>
  /\ fatalMsg' = ""
  /\ fatalArg' = ""
  /\ fatalAt' = ""
  /\ startCalls' = 0
  /\ relayCalls' = 0
  /\ waitCalls' = 0
  /\ UNCHANGED <<smartTerminal, haveBlankLine>>
  /\ KUnchanged

KInit ==
  /\ kpc = "pipe"
  /\ cmd = "none"
  /\ waitResult = ""
  /\ written = <<>>
  /\ pipe = <<>>
  /\ smartTerminal = FALSE
  /\ haveBlankLine = TRUE
  /\ consumed = <<>>
  /\ writes = <<>>
  /\ fatalMsg = ""
  /\ fatalArg = ""
  /\ fatalAt = ""
  /\ startCalls = 0
  /\ relayCalls = 0
  /\ waitCalls = 0
  /\ run = 1
  /\ recording = <<>>

KNext ==
  \/ runKati
  \/ ckatiWrite
  \/ ckatiExit
  \/ RunAgain

(***************************************************************************)
(* genKatiSuffix.                                                          *)
(***************************************************************************)
DASH == 45
SLASH == 47
UNDERSCORE == 95

\* the suffix length above which the suffix is replaced by its hash
MaxSuffixLen == 64

\* the string of n bytes b
Rep(b, n) == [i \in 1..n |-> b]

\* the values of TARGET_PRODUCT in the model: "a" and a name of 30 letters
Products == {<<97>>, Rep(112, 30)}

\* the kati arguments in the model: none, and "x/y" "z w"
ArgLists == {<<>>, <<<<120, SLASH, 121>>, <<122, SP, 119>>>>}

\* ONE_SHOT_MAKEFILE in the model: unset, empty, "d/e f", and paths of 61
\* and 62 letters (with product "a" and no arguments: keys of 64 and 65)
OneShots ==
  {<<FALSE, <<>>>>, <<TRUE, <<>>>>, <<TRUE, <<100, SLASH, 101, SP, 102>>>>,
   <<TRUE, Rep(113, 61)>>, <<TRUE, Rep(113, 62)>>}

\* spaceSlashReplacer.Replace(str)
spaceSlashReplacer(str) ==
  [i \in DOMAIN str |-> IF str[i] \in {SLASH, SP} THEN UNDERSCORE ELSE str[i]]

\* the local katiSuffix of genKatiSuffix before the test of its length
KatiKey(product, args, one) ==
  <<DASH>> \o product
    \o (IF Len(args) > 0 THEN <<DASH>> \o spaceSlashReplacer(Join(args, <<UNDERSCORE>>))
        ELSE <<>>)
    \o (IF one[1] THEN <<DASH>> \o spaceSlashReplacer(one[2]) ELSE <<>>)

\* one hexadecimal digit as printed by %x
HexDigit(n) == IF n < 10 THEN 48 + n ELSE 87 + n

\* fmt.Sprintf("%x", md5.Sum(key)): 32 hexadecimal digits that depend on
\* the key alone; the digest is replaced by a checksum of the key's length
\* and bytes
Md5Hex(key) ==
  [j \in 1..32 |->
     HexDigit((Len(key) * j + (IF key = <<>> THEN 0 ELSE key[((j - 1) % Len(key)) + 1]))
              % 16)]

\* a test that also replaces a suffix of exactly the greatest length
TooLongFromLimit(key) == Len(key) >= MaxSuffixLen

\* len(katiSuffix) > 64
TooLong(key) == Len(key) > MaxSuffixLen

\* config.KatiNinjaFile(): out/build<suffix>.ninja
KatiNinjaFile(suffix) ==
  <<111, 117, 116, SLASH, 98, 117, 105, 108, 100>> \o suffix
    \o <<46, 110, 105, 110, 106, 97>>

\* strings.TrimSuffix(str, suffix)
TrimSuffix(str, suffix) ==
  IF Len(str) >= Len(suffix)
     /\ SubSeq(str, Len(str) - Len(suffix) + 1, Len(str)) = suffix
    THEN SubSeq(str, 1, Len(str) - Len(suffix))
  ELSE str

\* the name of the suffix file of the stored suffix
SufFile(suffix) ==
  TrimSuffix(KatiNinjaFile(suffix), <<110, 105, 110, 106, 97>>) \o <<115, 117, 102>>

\* the files after a successful ioutil.WriteFile(path, content, 0777)
WriteFile(fs, path, content) ==
  {f \in fs : f.path # path} \cup {[path |-> path, content |-> content]}

SUnchanged == UNCHANGED <<hvars, kvars>>

\* genKatiSuffix up to config.SetKatiSuffix
genKatiSuffixSet ==
  /\ spc = "gen"
  /\ LET katiSuffix == KatiKey(targetProduct, katiArgs, oneShot)
     IN IF TooLong(katiSuffix)
          THEN /\ cfgKatiSuffix' = <<DASH>> \o Md5Hex(katiSuffix)
               /\ spc' = "write"
          ELSE /\ cfgKatiSuffix' = katiSuffix
               /\ spc' = "done"
  /\ UNCHANGED <<targetProduct, katiArgs, oneShot, files, sufWrites, sufErr,
                 prevBuild, builds>>
  /\ SUnchanged

\* ioutil.WriteFile of the suffix file; its error is printed and the build
\* goes on
genKatiSuffixWrite ==
  /\ spc = "write"
  /\ \E err \in BOOLEAN :
       IF err
         THEN sufErr' = TRUE /\ UNCHANGED <<files, sufWrites>>
         ELSE /\ files' = WriteFile(files, SufFile(cfgKatiSuffix),
                                    KatiKey(targetProduct, katiArgs, oneShot))
              /\ sufWrites' = sufWrites + 1
              /\ UNCHANGED sufErr
  /\ spc' = "done"
  /\ UNCHANGED <<targetProduct, katiArgs, oneShot, cfgKatiSuffix, prevBuild, builds>>
  /\ SUnchanged

genKatiSuffix == genKatiSuffixSet \/ genKatiSuffixWrite

\* the next build in the same out directory, with a new config
NextBuild ==
  /\ spc = "done"
  /\ builds < MaxBuilds
  /\ builds' = builds + 1
  /\ prevBuild' = [key |-> KatiKey(targetProduct, katiArgs, oneShot),
                   suffix |-> cfgKatiSuffix]
  /\ targetProduct' \in Products
  /\ katiArgs' \in ArgLists
  /\ oneShot' \in OneShots
  /\ cfgKatiSuffix' = <<>>
  /\ sufWrites' = 0
  /\ sufErr' = FALSE
  /\ spc' = "gen"
  /\ UNCHANGED files
  /\ SUnchanged

\* a build about to derive its suffix from inputs of the given sets
SInit(products, argLists, oneShots) ==
  /\ spc = "gen"
  /\ targetProduct \in products
  /\ katiArgs \in argLists
  /\ oneShot \in oneShots
  /\ cfgKatiSuffix = <<>>
  /\ files = {}
  /\ sufWrites = 0
  /\ sufErr = FALSE
  /\ prevBuild = <<>>
  /\ builds = 1

SNext == genKatiSuffix \/ NextBuild

(***************************************************************************)
(* The specifications: the registry under concurrent build actions, one    *)
(* build's run of ckati, and the suffixes derived by successive builds.    *)
(***************************************************************************)
Init == HInit /\ KInit /\ SInit({<<97>>}, {<<>>}, {<<FALSE, <<>>>>})

\* builds with any of the model's products, arguments and makefiles
InitSuffix == HInit /\ KInit /\ SInit(Products, ArgLists, OneShots)

Next == HNext

Spec == Init /\ [][Next]_vars

SpecKati == Init /\ [][KNext]_vars

SpecSuffix == InitSuffix /\ [][SNext]_vars

\* the steps of the build actions alone
WNext ==
  \/ \E w \in Workers, m \in ModuleNames : hiddenAPIGenerateCSV(w, m)
  \/ \E w \in Workers, m \in ModuleNames : hiddenAPIEncodeDex(w, m)
  \/ \E w \in Workers : SaveLock(w)
  \/ \E w \in Workers : hiddenAPISaveCSVOutputs(w)
  \/ \E w \in Workers : hiddenAPISaveDexInputs(w)
  \/ \E w \in Workers : SaveReturn(w)

\* a goroutine that can run is run: the statements between Lock and the
\* return are taken (weak fairness); a goroutine blocked in Lock gets the
\* mutex if it is free again and again (strong fairness: sync.Mutex hands a
\* starving waiter the lock).  Nothing obliges a worker to start a call.
Fairness ==
  \A w \in Workers :
    /\ WF_vars(hiddenAPISaveCSVOutputs(w) \/ hiddenAPISaveDexInputs(w) \/ SaveReturn(w))
    /\ SF_vars(SaveLock(w))

\* the build actions under fair scheduling
SpecFair == Init /\ [][WNext]_vars /\ Fairness

(***************************************************************************)
(* Properties of the registry.                                             *)
(***************************************************************************)
\* the android.Path values of set S as a sequence in increasing order of
\* their strings
Ascending(S) ==
  CHOOSE s \in [1..Cardinality(S) -> S] :
    /\ \A i, j \in DOMAIN s : i # j => s[i] # s[j]
    /\ \A i, j \in DOMAIN s : i < j => ~StrLess(s[j].str, s[i].str)

\* the registry list of export name k of config c
ListOf(c, k) == heap[onceValues[c][k]]

RangeOf(s) == {s[i] : i \in DOMAIN s}

\* the number of space-separated values of an exported string
NumFields(str) ==
  IF str = <<>> THEN 0 ELSE 1 + Cardinality({i \in DOMAIN str : str[i] = SP})

IsPrefix(s, t) == Len(s) <= Len(t) /\ SubSeq(t, 1, Len(s)) = s

\* C1: a drain that starts after every append has completed exports, for
\* each name, the appended paths in ascending lexicographic order joined by
\* single spaces, whatever the order in which the appends arrived.
C1_DrainSorted ==
  \A k \in 1..3 :
    (dAfterAll /\ dpc > k) =>
      makeVars[k] = Join(Strings(Ascending(done[dcfg][k])), <<SP>>)

\* the drain has run after all appends, on a list whose order of arrival is
\* not the ascending order
C1_Witness ==
  /\ dAfterAll
  /\ dpc = 4
  /\ Len(ListOf(dcfg, 1)) >= 2
  /\ Strings(ListOf(dcfg, 1)) # SortStrings(Strings(ListOf(dcfg, 1)))

\* C2: all callers of one config get the same backing lists, only one set
\* of lists is ever created per config, every completed append is in its
\* list, and a drain after all appends exports as many values as appends.
C2_SingleCreation ==
  /\ Len(heap) = 3 * Cardinality({c \in Configs : onceValues[c] # <<>>})
  /\ \A w \in Workers : wptr[w] # <<>> => wptr[w] = onceValues[wcfg[w]]
  /\ dptr # <<>> => dptr = onceValues[dcfg]
  /\ \A c \in Configs : \A k \in 1..3 :
       onceValues[c] # <<>> =>
         /\ RangeOf(ListOf(c, k)) = done[c][k]
         /\ Len(ListOf(c, k)) = Cardinality(done[c][k])
  /\ \A k \in 1..3 :
       (dAfterAll /\ dpc > k) => NumFields(makeVars[k]) = Cardinality(done[dcfg][k])

\* every worker made its first access before any append had completed, each
\* has appended to the same list, and the drain has run after them
C2_Witness ==
  /\ early = Workers
  /\ dAfterAll
  /\ dpc = 4
  /\ \E k \in 1..3 :
       /\ \A w \in Workers : \E p \in done[dcfg][k] : p.by[1] = w
       /\ NumFields(makeVars[k]) >= NumWorkers

\* C3: a name that has received no append, completed or in progress, is
\* exported as the empty string, also when the drain is the first access to
\* the registry, and the drain always has lists to read.
C3_EmptyDrain ==
  /\ dpc >= 1 => \A k \in 1..3 : dptr[k] \in DOMAIN heap
  /\ \A k \in 1..3 :
       (dpc > k /\ done[dcfg][k] = {} /\ Appending(dptr[k]) = {}) => makeVars[k] = <<>>

\* the drain was the first access and exported a name without appends
C3_Witness ==
  /\ dpc = 4
  /\ early = {}
  /\ CallsStarted = 0
  /\ makeVars[3] = <<>>

\* C4: a step changes a registry list only by adding the path of the
\* append in progress at its end, and the entries of one caller are in the
\* order of its calls.
C4_AppendOnly ==
  /\ [][\A a \in DOMAIN heap :
          \/ heap'[a] = heap[a]
          \/ \E w \in Workers :
               /\ wpc[w] \in {"csv_wr1", "csv_wr2", "dex_wr"}
               /\ \E i \in DOMAIN wargs[w] : heap'[a] = Append(heap[a], wargs[w][i])
               /\ wpc'[w] # wpc[w]]_vars
  /\ [](\A a \in DOMAIN heap : \A i, j \in DOMAIN heap[a] :
          (i < j /\ heap[a][i].by[1] = heap[a][j].by[1])
            => heap[a][i].by[2] < heap[a][j].by[2])

\* one caller has appended twice to a list that the drain has then exported
\* in another order than the one stored
C4_Witness ==
  /\ dpc = 4
  /\ \E k \in 1..3 : \E i, j \in DOMAIN ListOf(dcfg, k) :
       /\ i < j
       /\ ListOf(dcfg, k)[i].by[1] = ListOf(dcfg, k)[j].by[1]
       /\ StrLess(ListOf(dcfg, k)[j].str, ListOf(dcfg, k)[i].str)
       /\ makeVars[k] = ListOf(dcfg, k)[j].str \o <<SP>> \o ListOf(dcfg, k)[i].str

\* the workers between Lock and the deferred Unlock
InCritical ==
  {w \in Workers : wpc[w] \in {"csv_rd1", "csv_wr1", "csv_rd2", "csv_wr2",
                                "dex_rd", "dex_wr", "unlock"}}

\* C13: at most one worker is between Lock and Unlock and it is the holder
\* of hiddenAPIOutputsLock; a step changes a list only when taken by the
\* holder; the list a holder is about to store an append to is still the
\* one it read; each list is as long as the number of appends completed to
\* it.
C13_AppendsUnderLock ==
  /\ [](/\ Cardinality(InCritical) <= 1
        /\ \A w \in InCritical : lockHolder = w
        /\ InCritical = {} => lockHolder = 0
        /\ \A w \in Workers :
             /\ wpc[w] = "csv_wr1" => wtmp[w] = heap[wptr[w][1]]
             /\ wpc[w] = "csv_wr2" => wtmp[w] = heap[wptr[w][2]]
             /\ wpc[w] = "dex_wr" => wtmp[w] = heap[wptr[w][3]]
        /\ \A c \in Configs : \A k \in 1..3 :
             onceValues[c] # <<>> => Len(ListOf(c, k)) = Cardinality(done[c][k]))
  /\ [][\A a \in DOMAIN heap :
          heap'[a] # heap[a] =>
            \E w \in Workers :
              /\ lockHolder = w
              /\ lockHolder' = w
              /\ wpc[w] \in {"csv_wr1", "csv_wr2", "dex_wr"}
              /\ wpc'[w] # wpc[w]]_vars

\* one worker holds the lock between its two appends while another waits
\* for the lock with an append to the same list
C13_Witness ==
  \E w, v \in Workers :
    /\ w # v
    /\ lockHolder = w
    /\ wpc[w] = "csv_wr2"
    /\ wpc[v] = "csv_lock"
    /\ Len(ListOf(wcfg[w], 1)) = 1
    /\ wcfg[v] = wcfg[w]

\* the values exported for the contents that list s has had, s being
\* append-only: one for each of its prefixes
SnapshotsOf(s) == {ExportValue(SubSeq(s, 1, n)) : n \in 0..Len(s)}

\* C14: each value exported by the drain is the sorted content that the
\* list had at one moment, and no export reads a list while a worker is
\* between the read and the store of an append to it.
C14_DrainSnapshot ==
  /\ [](\A k \in 1..3 : dpc > k => makeVars[k] \in SnapshotsOf(heap[dptr[k]]))
  /\ [][\A k \in 1..3 : (dpc = k /\ dpc' = k + 1) => Appending(dptr[k]) = {}]_vars

\* the workers blocked in or about to call Lock
Waiting == {w \in Workers : wpc[w] \in {"csv_lock", "dex_lock"}}

\* C18: a worker that has requested hiddenAPIOutputsLock eventually holds
\* it, every call that has started eventually returns, a worker that has
\* returned does not hold the lock, and whenever a worker waits for the
\* lock some worker can take a step.
C18_AppendsReturn ==
  /\ \A w \in Workers : (w \in Waiting) ~> (lockHolder = w)
  /\ \A w \in Workers : (wpc[w] # "idle") ~> (wpc[w] = "idle")
  /\ [](\A w \in Workers : wpc[w] = "idle" => lockHolder # w)
  /\ [](Waiting # {} => ENABLED WNext)

\* every worker asked for the registry before any append had completed,
\* and all their calls have returned with the paths appended
C18_Witness ==
  /\ early = Workers
  /\ \A w \in Workers : wpc[w] = "idle" /\ wcalls[w] >= 1
  /\ lockHolder = 0
  /\ \A w \in Workers : \E k \in 1..3 : \E p \in done[wcfg[w]][k] : p.by[1] = w

\* C19: whenever hiddenAPIOutputsLock is free, the flags list and the
\* metadata list of a config are equally long and their entries at the same
\* index come from the same call; a step of hiddenAPISaveDexInputs changes
\* neither list.
C19_CSVPairs ==
  /\ [](lockHolder = 0 =>
         \A c \in Configs :
           onceValues[c] # <<>> =>
             /\ Len(ListOf(c, 1)) = Len(ListOf(c, 2))
             /\ \A i \in DOMAIN ListOf(c, 1) : ListOf(c, 1)[i].by = ListOf(c, 2)[i].by)
  /\ [][\A w \in Workers :
          (wpc[w] \in {"dex_rd", "dex_wr"} /\ wpc'[w] # wpc[w]) =>
            /\ heap'[wptr[w][1]] = heap[wptr[w][1]]
            /\ heap'[wptr[w][2]] = heap[wptr[w][2]]]_vars

\* two workers that asked for the registry before any append had completed
\* have both returned from hiddenAPISaveCSVOutputs
C19_Witness ==
  /\ lockHolder = 0
  /\ early = Workers
  /\ \E c \in Configs :
       /\ onceValues[c] # <<>>
       /\ Len(ListOf(c, 1)) = NumWorkers
       /\ Len(ListOf(c, 2)) = NumWorkers
       /\ \A w \in Workers : \E i \in DOMAIN ListOf(c, 1) : ListOf(c, 1)[i].by[1] = w

(***************************************************************************)
(* Properties of runKati and katiRewriteOutput.                            *)
(***************************************************************************)
RECURSIVE BytesOf(_, _)
\* the bytes written to a sink, in order
BytesOf(w, sink) ==
  IF w = <<>> THEN <<>>
  ELSE (IF Head(w).sink = sink THEN Head(w).text ELSE <<>>) \o BytesOf(Tail(w), sink)

\* the writes made for input line number i
WritesAt(i) == SelectSeq(writes, LAMBDA e : e.at = i)

\* the index of the first CR, LF or ESC of s, Len(s) + 1 when it has none
NextControl(s) ==
  LET C == {i \in DOMAIN s : s[i] \in {CR, LF, ESC}}
  IN IF C = {} THEN Len(s) + 1 ELSE CHOOSE i \in C : \A j \in C : i <= j

\* the row cur with the bytes chunk written over it from column col on
Overwritten(cur, col, chunk) ==
  SubSeq(cur, 1, col) \o chunk \o SubSeq(cur, col + Len(chunk) + 1, Len(cur))

RECURSIVE Screen(_, _)
\* what a terminal shows after the bytes s: the finished rows, the row of
\* the cursor and the cursor's column.  CR moves to column 0, LF ends the
\* row, ESC [ K clears from the cursor to the end of the row, any other
\* byte is shown at the cursor.
Screen(st, s) ==
  IF s = <<>> THEN st
  ELSE IF s[1] = CR THEN Screen([st EXCEPT !.col = 0], Tail(s))
  ELSE IF s[1] = LF
    THEN Screen([rows |-> Append(st.rows, st.cur), cur |-> <<>>, col |-> 0], Tail(s))
  ELSE IF s[1] = ESC /\ Len(s) >= 3 /\ s[2] = 91 /\ s[3] = 75
    THEN Screen([st EXCEPT !.cur = SubSeq(st.cur, 1, st.col)], SubSeq(s, 4, Len(s)))
  ELSE LET n == IF s[1] = ESC THEN 1 ELSE NextControl(s) - 1
           chunk == SubSeq(s, 1, n)
       IN Screen([rows |-> st.rows,
                  cur |-> Overwritten(st.cur, st.col, chunk),
                  col |-> st.col + n], SubSeq(s, n + 1, Len(s)))

Terminal == Screen([rows |-> <<>>, cur |-> <<>>, col |-> 0], BytesOf(writes, "stdout"))

\* the classification of the i-th line read
IsProgress(i) == katiIncludeRe(consumed[i].line)

\* the i-th line read, cut to the width measured for it
Shown(i) == Truncated(consumed[i].line, consumed[i].tw)

\* katiRewriteOutput is running or has returned in this run
Relaying == relayCalls = 1 /\ kpc \in {"scan", "wait", "done", "fatal"}

Returned == relayCalls = 1 /\ kpc \in {"wait", "done", "fatal"}

RECURSIVE CommittedTo(_)
\* the progress lines among the first n lines read that were followed by a
\* durable line or by the end of the loop, as shown
CommittedTo(n) ==
  IF n = 0 THEN <<>>
  ELSE CommittedTo(n - 1) \o
       (IF IsProgress(n) /\ (IF n < Len(consumed) THEN ~IsProgress(n + 1) ELSE Returned)
          THEN <<Shown(n)>> ELSE <<>>)

\* C5: on an interactive terminal katiRewriteOutput returns with the cursor
\* at the start of an empty row; after the loop it writes one newline to the
\* terminal when the last line read was a progress line, which is then the
\* last finished row, and nothing otherwise.
C5_NoHeldLineAtReturn ==
  (Returned /\ smartTerminal) =>
    LET n == Len(consumed)
        t == Terminal
    IN
    /\ t.cur = <<>>
    /\ t.col = 0
    /\ IF n > 0 /\ IsProgress(n)
         THEN /\ WritesAt(n + 1) = <<Write("stdout", <<LF>>, n + 1)>>
              /\ t.rows # <<>>
              /\ t.rows[Len(t.rows)] = Shown(n)
         ELSE WritesAt(n + 1) = <<>>

\* a run on a terminal has returned after a last line that was a progress
\* line cut to the terminal's width
C5_Witness ==
  /\ Returned
  /\ smartTerminal
  /\ Len(consumed) >= 2
  /\ IsProgress(Len(consumed))
  /\ consumed[Len(consumed)].tw = <<5, TRUE>>
  /\ cmd = "exited"
  /\ pipe = <<>>

\* C6: on an interactive terminal a durable line that follows a progress
\* line makes exactly two writes, a newline to the terminal and then the
\* line with a newline to the secondary sink, and leaves haveBlankLine set;
\* a progress line after it makes one write to the terminal (CR, the line,
\* ESC [ K); the terminal's finished rows are the committed progress lines.
C6_DurableCommitsProgress ==
  (Relaying /\ smartTerminal) =>
    LET n == Len(consumed)
        t == Terminal
    IN
    /\ \A i \in 2..n :
         (~IsProgress(i) /\ IsProgress(i - 1)) =>
           /\ WritesAt(i) = <<Write("stdout", <<LF>>, i),
                              Write("stderr", consumed[i].line \o <<LF>>, i)>>
           /\ (i = n /\ kpc = "scan") => haveBlankLine
           /\ (i < n /\ IsProgress(i + 1)) =>
                WritesAt(i + 1) =
                  <<Write("stdout", <<CR>> \o Shown(i + 1) \o <<ESC, 91, 75>>, i + 1)>>
    /\ t.rows = CommittedTo(n)
    /\ kpc = "scan" => (haveBlankLine <=> (t.cur = <<>> /\ t.col = 0))

\* a progress line, a durable line and another progress line were read on
\* a terminal: the first is a finished row, the third is held
C6_Witness ==
  /\ Relaying
  /\ smartTerminal
  /\ Len(consumed) = 3
  /\ IsProgress(1)
  /\ ~IsProgress(2)
  /\ IsProgress(3)
  /\ kpc = "scan"
  /\ Terminal.rows = <<Shown(1)>>
  /\ Terminal.cur = Shown(3)

\* whether a byte string holds ESC [
HasEscape(s) == \E i \in 1..(Len(s) - 1) : s[i] = ESC /\ s[i + 1] = 91

\* the lines of the items s
LinesOf(s) == [i \in DOMAIN s |-> s[i].line]

C8_SameOutputTwice ==
  (run = 2 /\ Returned) =>
    /\ BytesOf(writes, "stdout") = BytesOf(recording.writes, "stdout")
    /\ BytesOf(writes, "stderr") = BytesOf(recording.writes, "stderr")

\* the second run has ended after writing to both sinks, the recorded run
\* having ended on a progress line
C8_Witness ==
  /\ run = 2
  /\ kpc = "done"
  /\ BytesOf(writes, "stdout") # <<>>
  /\ BytesOf(writes, "stderr") # <<>>
  /\ IsProgress(Len(consumed))
  /\ ~IsProgress(1)
  /\ \E i \in DOMAIN consumed : consumed[i].tw = <<5, TRUE>>

\* C9: when cmd.Wait is called, the process has closed its output and
\* nothing is left unread in the pipe.
C9_DrainedBeforeWait ==
  kpc = "wait" => (pipe = <<>> /\ cmd = "exited")

\* C10: after a failure of cmd.StdoutPipe or cmd.Start the step is aborted
\* with the failure's message: katiRewriteOutput and cmd.Wait were not
\* called, nothing was written to the sinks, no process runs, and cmd.Start
\* was called once at most.
C10_LaunchFailureAborts ==
  (fatalAt \in {"pipe", "start"}) =>
    /\ kpc = "fatal"
    /\ relayCalls = 0
    /\ waitCalls = 0
    /\ writes = <<>>
    /\ consumed = <<>>
    /\ cmd = "none"
    /\ startCalls = (IF fatalAt = "pipe" THEN 0 ELSE 1)
    /\ fatalMsg = (IF fatalAt = "pipe" THEN "Error getting output pipe for ckati:"
                   ELSE "Failed to run ckati:")

\* cmd.Start has failed
C10_Witness ==
  /\ fatalAt = "start"
  /\ kpc = "fatal"
  /\ startCalls = 1

\* C11: once cmd.Wait has returned, after one start and one relay, the step
\* has ended normally exactly when Wait returned no error; an exit with a
\* non-zero status has aborted the step with "ckati failed with:" and the
\* text of the exit status, a message that is neither of the two launch
\* failure messages; cmd.Start and cmd.Wait were each called once.
C11_ExitStatusDecides ==
  /\ kpc = "done" => waitCalls = 1
  /\ waitCalls >= 1 =>
       /\ waitCalls = 1
       /\ startCalls = 1
       /\ relayCalls = 1
       /\ kpc \in {"done", "fatal"}
       /\ kpc = "done" <=> waitResult = "nil"
       /\ waitResult = "nil" => fatalAt = ""
       /\ waitResult = "exit1" =>
            /\ kpc = "fatal"
            /\ fatalAt = "wait"
            /\ fatalMsg = "ckati failed with:"
            /\ fatalArg = "exit status 1"
            /\ fatalMsg \notin {"Failed to run ckati:",
                                "Error getting output pipe for ckati:"}

\* ckati has written lines that were relayed and has then exited with a
\* non-zero status
C11_Witness ==
  /\ waitResult = "exit1"
  /\ kpc = "fatal"
  /\ Len(consumed) = MaxLines
  /\ pipe = <<>>

\* C12: every error of cmd.Wait other than an exit with non-zero status, a
\* kill by a signal included, is reported with "Failed to run ckati:" and
\* not with the report of an exit status.
C12_SignalIsGeneric ==
  waitResult \in {"signal", "other"} =>
    /\ kpc = "fatal"
    /\ fatalMsg = "Failed to run ckati:"

\* C12, amended: an error of cmd.Wait that is not an *exec.ExitError aborts
\* the step with "Failed to run ckati:" and the error; an *exec.ExitError,
\* which cmd.Wait returns for a non-zero exit status and also for a process
\* ended by a signal, aborts it with "ckati failed with:" and the text of
\* the process state ("signal: killed" for the signal).
C12_ExitErrorOrGeneric ==
  /\ waitResult = "other" =>
       /\ kpc = "fatal"
       /\ fatalAt = "wait"
       /\ fatalMsg = "Failed to run ckati:"
       /\ fatalArg = "err"
  /\ waitResult = "signal" =>
       /\ kpc = "fatal"
       /\ fatalAt = "wait"
       /\ fatalMsg = "ckati failed with:"
       /\ fatalArg = "signal: killed"
  /\ (fatalAt = "wait" /\ fatalMsg = "Failed to run ckati:") => waitResult = "other"
  /\ (fatalAt = "wait" /\ fatalMsg = "ckati failed with:")
       => waitResult \in {"exit1", "signal"}

\* ckati was ended by a signal after its output had been relayed
C12_Witness ==
  /\ waitResult = "signal"
  /\ kpc = "fatal"
  /\ fatalAt = "wait"
  /\ consumed # <<>>

\* C15: on a terminal every progress line read, whether the line before it
\* was held or not, makes exactly one write, to the terminal: CR, then the
\* line itself when termWidth gave no width or the line fits, else its
\* first bytes up to the width given for that line, then ESC [ K; the write
\* has no newline, nothing goes to the secondary sink, and haveBlankLine
\* is false after it.
C15_ProgressWrite ==
  (Relaying /\ smartTerminal) =>
    \A i \in DOMAIN consumed :
      IsProgress(i) =>
        LET line == consumed[i].line
            tw == consumed[i].tw
            w == WritesAt(i)
        IN /\ Len(w) = 1
           /\ w[1].sink = "stdout"
           /\ LET text == w[1].text
                  cut == SubSeq(text, 2, Len(text) - 3)
              IN /\ Len(text) >= 4
                 /\ text[1] = CR
                 /\ SubSeq(text, Len(text) - 2, Len(text)) = <<ESC, 91, 75>>
                 /\ IsPrefix(cut, line)
                 /\ tw[2] => Len(cut) <= tw[1]
                 /\ (~tw[2] \/ Len(line) <= tw[1]) => cut = line
                 /\ (tw[2] /\ Len(line) > tw[1]) => Len(cut) = tw[1]
                 /\ \A j \in DOMAIN text : text[j] # LF
           /\ (i = Len(consumed) /\ kpc = "scan") => ~haveBlankLine

\* on a terminal a progress line was read in the blank state with no width
\* known, and a second one while the first was held, cut to five columns
C15_Witness ==
  /\ Relaying
  /\ smartTerminal
  /\ kpc = "scan"
  /\ Len(consumed) = 2
  /\ IsProgress(1)
  /\ IsProgress(2)
  /\ consumed[1].tw = <<0, FALSE>>
  /\ consumed[2].tw = <<5, TRUE>>
  /\ Len(WritesAt(2)[1].text) = 9
  /\ ~haveBlankLine

\* whether s is "including ", one file name without a space, a space and
\* three dots
IncludingWithDots(s) ==
  /\ MatchIncluding(s)
  /\ SubSeq(s, Len(s) - 2, Len(s)) = <<46, 46, 46>>

\* whether line is a progress line as the classification is described: an
\* optional "[n/m] " counter, "including ", a file name, a space, "..."
LiteralProgress(line) ==
  \/ IncludingWithDots(line)
  \/ \E p \in 1..Len(line) :
       /\ MatchCounter(line, p)
       /\ IncludingWithDots(SubSeq(line, p + 1, Len(line)))

\* C16: a line read is classified as a progress line exactly when it is an
\* optional "[n/m] " counter, "including ", one file name without a space,
\* a space and the three dots "..."; a line that does not end in three dots
\* is not a progress line.
C16_LiteralDots ==
  \A i \in DOMAIN consumed : IsProgress(i) <=> LiteralProgress(consumed[i].line)

RECURSIVE DurableBytes(_)
\* the lines of s that are not progress lines, each followed by a newline
DurableBytes(s) ==
  IF s = <<>> THEN <<>>
  ELSE (IF LiteralProgress(Head(s)) THEN <<>> ELSE Head(s) \o <<LF>>)
       \o DurableBytes(Tail(s))

\* C17: on a terminal, once ckati has exited and katiRewriteOutput has
\* returned, the secondary sink has received the durable lines that ckati
\* wrote, each once, unchanged, with a newline, in order; a durable line
\* read when no progress line is held makes no write to the terminal.
C17_DurableToSecondary ==
  (Returned /\ smartTerminal /\ cmd = "exited") =>
    /\ BytesOf(writes, "stderr") = DurableBytes(written)
    /\ \A i \in DOMAIN consumed :
         (~LiteralProgress(consumed[i].line) /\ (i = 1 \/ ~IsProgress(i - 1)))
           => BytesOf(WritesAt(i), "stdout") = <<>>

(***************************************************************************)
(* Properties of genKatiSuffix.                                            *)
(***************************************************************************)
\* the key derived from the inputs of the current build
CurrentKey == KatiKey(targetProduct, katiArgs, oneShot)

IsHex(b) == (b >= 48 /\ b <= 57) \/ (b >= 97 /\ b <= 102)

\* whether the suffix file named after the stored suffix holds the key
KeyInSufFile ==
  [path |-> SufFile(cfgKatiSuffix), content |-> CurrentKey] \in files

\* what holds of the stored suffix whether or not the file could be
\* written: its length, its value, and that equal keys give equal suffixes
SuffixOfKey ==
  /\ Len(cfgKatiSuffix) <= 64
  /\ Len(CurrentKey) <= 64 =>
       /\ cfgKatiSuffix = CurrentKey
       /\ sufWrites = 0
       /\ ~sufErr
  /\ Len(CurrentKey) > 64 =>
       /\ Len(cfgKatiSuffix) = 33
       /\ cfgKatiSuffix[1] = DASH
       /\ \A i \in 2..33 : IsHex(cfgKatiSuffix[i])
       /\ cfgKatiSuffix = <<DASH>> \o Md5Hex(CurrentKey)
  /\ (prevBuild # <<>> /\ prevBuild.key = CurrentKey)
       => prevBuild.suffix = cfgKatiSuffix

\* C20: after genKatiSuffix the stored suffix has at most 64 characters; a
\* key of at most 64 characters is stored as it is and no suffix file is
\* written; a longer key is stored as "-" and the 32 digits of its hash,
\* equal keys giving equal suffixes, and the suffix file then holds the key.
C20_SuffixAndSideFile ==
  spc = "done" =>
    /\ SuffixOfKey
    /\ Len(CurrentKey) > 64 => KeyInSufFile

\* C20, amended: as C20, but the suffix file holds the key when writing it
\* succeeded; when writing it failed the error was printed, the build went
\* on with the hashed suffix and no file was written by this build.
C20_SuffixAndSideFileIfWritten ==
  spc = "done" =>
    /\ SuffixOfKey
    /\ (Len(CurrentKey) > 64 /\ ~sufErr) => (KeyInSufFile /\ sufWrites = 1)
    /\ sufErr => (Len(CurrentKey) > 64 /\ sufWrites = 0)

\* a second build with the key of the first, one character longer than the
\* limit, has stored the hashed suffix and written the suffix file
C20_Witness ==
  /\ spc = "done"
  /\ builds = 2
  /\ prevBuild.key = CurrentKey
  /\ Len(CurrentKey) = 65
  /\ Len(cfgKatiSuffix) = 33
  /\ ~sufErr
  /\ KeyInSufFile

====
